---- MODULE Spec2Model ----
(***************************************************************************)
(* STFTProcessor of src/src/fft_analysis/audio/stft.py and FFTAnalyzer of  *)
(* src/src/fft_analysis/fft.py as state machines.                          *)
(*                                                                         *)
(* Numbers.  Samples are integers.  Window coefficients are fixed-point    *)
(* integers in units of 1/WScale; the window sizes are those for which     *)
(* every supported window has coefficients that are exact in that unit     *)
(* (0, 1, 2 and 4 points), and for which the discrete Fourier transform    *)
(* has twiddle factors in {1, -1, i, -i} and is exact on Gaussian          *)
(* integers.  A complex number is a record [re, im].  The inverse          *)
(* transform's factor 1/N and the final division are kept as explicit      *)
(* denominators: a reconstructed sample is a fraction [num, den], and a    *)
(* fraction with den = 0 stands for a non-finite float (NaN or Inf).       *)
(* Floating-point rounding is not modelled.                                *)
(***************************************************************************)
EXTENDS Integers, Sequences, FiniteSets, TLC

VARIABLES
    init_args,            \* the arguments of the constructor call
    proc,                 \* the processor: window_size, hop_length, window_type, window
    pc,                   \* "new", "failed", "idle", "stft", "istft", "snr", "returned"
    audio_signal,         \* the caller's signal, argument of stft
    stft_matrix,          \* the matrix stft builds, or the argument of istft
    num_frames,           \* local of stft and istft
    i,                    \* loop index of stft and istft
    output_signal,        \* istft's signal accumulator, in units of 1/(rows * WScale^2)
    window_sum,           \* istft's window-sum accumulator, in units of 1/WScale
    result,               \* what the last call returned or raised
    chained,              \* TRUE when istft runs on the matrix stft returned for audio_signal
    snr_args,             \* the caller's two arrays, arguments of compute_snr
    original_signal,      \* compute_snr's parameter, rebound to the truncated array
    reconstructed_signal, \* compute_snr's parameter, rebound to the truncated array
    pending,              \* the frames (0-based) the running loop has still to do
    prev_snr,             \* the caller's previous SNR measurement, arguments and value
    call_args,            \* the arguments of the last FFTAnalyzer call
    fft_result,           \* the caller's np.fft.fft(signal), argument of perform_ifft
    returned,             \* what the last FFTAnalyzer call returned or raised
    report,               \* the file REPORT.md: whether it exists, and its characters
    linesep,              \* os.linesep of the platform, what a written "\n" becomes
    upd_pc,               \* "idle", "exists", "header", "read", "write" of update_report
    caller,               \* whose update_report is running: "stft", "fft" or "mel"
    content,              \* update_report's local: the text read from the file
    upd_result,           \* what the last update_report call raised, if it raised
    report0,              \* history: the file before the first update_report call
    calls,                \* history: the callers of update_report, in call order
    header_writes         \* history: how many times a header was written

\* the variables of the FFTAnalyzer calls
fftVars == <<call_args, fft_result, returned>>

\* the variables of the STFTProcessor calls
stftVars == <<init_args, proc, pc, audio_signal, stft_matrix, num_frames, i,
              output_signal, window_sum, result, chained,
              snr_args, original_signal, reconstructed_signal, pending, prev_snr>>

\* the variables of the update_report calls
reportVars == <<report, linesep, upd_pc, caller, content, upd_result,
                report0, calls, header_writes>>

vars == <<stftVars, fftVars, reportVars>>

----------------------------------------------------------------------------
(* Bounds of the model *)

\* a signal handed to stft has at most window_size + MaxExtra samples
MaxExtra == 5
\* a signal handed to stft changes value at most MaxChanges times
MaxChanges == 2
\* longest array handed to compute_snr
MaxSnrLen == 2
\* longest REPORT.md, in characters, that stands before the first update_report call
MaxReportLen == 2
\* most update_report calls in a run
MaxCalls == 2
\* as MaxExtra, where the frames are taken in any order
MaxExtraAnyOrder == 2

\* sample values of the signals
Samples == {-1, 2}
\* window_size values handed to the constructor
WindowSizes == {0, 1, 2, 4}
\* hop_length values handed to the constructor
HopLengths == {0, 1, 2, 3}
\* row and column counts of the matrices handed directly to istft
RowCounts == {1, 2, 4}
ColCounts == {0, 1, 2}
\* window_type values handed to the constructor
WindowTypes == {"hann", "hamming", "blackman", "bartlett", "kaiser"}
\* base frequencies, durations (fractions of a second) and sampling rates handed to
\* FFTAnalyzer; 5, 1 and 1000 are generate_signal's defaults
Freqs == {1, 5}
Durations == {[num |-> 1, den |-> 1], [num |-> 1, den |-> 2],
              [num |-> 0, den |-> 1], [num |-> -1, den |-> 1]}
SamplingRates == {0, 3, 8, 1000}
\* lengths of the signals handed to perform_fft and np.fft.fft
FftSizes == {0, 1, 2, 4}

----------------------------------------------------------------------------
(* Numeric helpers *)

\* unit of the fixed-point window coefficients: a coefficient c is c / WScale
WScale == 100

\* the floor 1e-6 of istft, as 1 / FloorDen
FloorDen == 1000000

RECURSIVE SumTo(_, _)
\* f[1] + ... + f[n]
SumTo(f, n) == IF n = 0 THEN 0 ELSE f[n] + SumTo(f, n - 1)

Min(a, b) == IF a < b THEN a ELSE b

Zeros(n) == [k \in 1..n |-> 0]

CZero == [re |-> 0, im |-> 0]

\* z * (-i)^m
CMulUnit(z, m) ==
    CASE m % 4 = 0 -> z
      [] m % 4 = 1 -> [re |-> z.im, im |-> -z.re]
      [] m % 4 = 2 -> [re |-> -z.re, im |-> -z.im]
      [] m % 4 = 3 -> [re |-> -z.im, im |-> z.re]

\* np.fft.fft of a real sequence x of N in {1, 2, 4} points:
\* X[k] = sum_n x[n] * exp(-2 pi i k n / N), exp(-2 pi i / N) = (-i)^(4/N)
Fft(x) ==
    LET N == Len(x)
        term(k, n) == CMulUnit([re |-> x[n], im |-> 0], (k - 1) * (n - 1) * (4 \div N))
    IN  [k \in 1..N |->
            [re |-> SumTo([n \in 1..N |-> term(k, n).re], N),
             im |-> SumTo([n \in 1..N |-> term(k, n).im], N)]]

\* IfftRealNum with the sign of the forward transform in the exponent
IfftRealNumForward(X) ==
    LET N == Len(X)
        term(n, k) == CMulUnit(X[k], (k - 1) * (n - 1) * (4 \div N))
    IN  [n \in 1..N |-> SumTo([k \in 1..N |-> term(n, k).re], N)]

\* np.real(np.fft.ifft(X)) of a complex sequence X of N in {1, 2, 4} points, times N:
\* N * x[n] = Re sum_k X[k] * exp(+2 pi i k n / N), exp(+2 pi i / N) = (-i)^(-4/N)
IfftRealNum(X) ==
    LET N == Len(X)
        term(n, k) == CMulUnit(X[k], 4 - (((k - 1) * (n - 1) * (4 \div N)) % 4))
    IN  [n \in 1..N |-> SumTo([k \in 1..N |-> term(n, k).re], N)]

----------------------------------------------------------------------------
(* The window: scipy.signal.get_window(window_type, window_size), periodic *)

\* cos(2 pi n / N) for N in {1, 2, 4}
CosTurn(n, N) ==
    CASE (n * (4 \div N)) % 4 = 0 -> 1
      [] (n * (4 \div N)) % 4 = 2 -> -1
      [] OTHER -> 0

\* coefficient n (0-based) of the N-point periodic window, in units of 1/WScale
WindowCoef(wt, n, N) ==
    IF N <= 1 THEN WScale
    ELSE CASE wt = "hann"     -> (50 * WScale) \div 100 - ((50 * WScale) \div 100) * CosTurn(n, N)
           [] wt = "hamming"  -> (54 * WScale) \div 100 - ((46 * WScale) \div 100) * CosTurn(n, N)
           [] wt = "blackman" -> (42 * WScale) \div 100 - ((50 * WScale) \div 100) * CosTurn(n, N)
                                 + ((8 * WScale) \div 100) * CosTurn(2 * n, N)
           [] wt = "bartlett" -> IF 2 * n <= N THEN (2 * n * WScale) \div N
                                 ELSE 2 * WScale - (2 * n * WScale) \div N
           [] OTHER           -> WScale

supported_windows_with_kaiser == {"hann", "hamming", "blackman", "bartlett", "kaiser"}

\* _get_window, line 49
supported_windows == {"hann", "hamming", "blackman", "bartlett"}

\* _get_window: the window array, or the ValueError of an unsupported type
GetWindow(wt, ws) ==
    IF wt \notin supported_windows
    THEN [ok |-> FALSE, window |-> <<>>]
    ELSE [ok |-> TRUE, window |-> [n \in 1..ws |-> WindowCoef(wt, n - 1, ws)]]

----------------------------------------------------------------------------
(* Values *)

NoProc == [window_size |-> 0, hop_length |-> 0, window_type |-> "", window |-> <<>>]

NoMatrix == [rows |-> 0, cols |-> <<>>]

NoResult == [kind |-> "none", val |-> <<>>, line |-> 0]

Raised(exc, ln) == [kind |-> "error", val |-> exc, line |-> ln]

\* number of positions where s changes value
Changes(s) == Cardinality({k \in 1..(Len(s) - 1) : s[k] # s[k + 1]})

Signals(W) == {s \in UNION {[1..n -> Samples] : n \in 0..(W + MaxExtra)} :
                  Changes(s) <= MaxChanges}

SnrSignals == UNION {[1..n -> Samples] : n \in 0..MaxSnrLen}

\* the arrays of two SNR measurements that are compared, silent samples included
ComparedSignals == UNION {[1..n -> Samples \cup {0}] : n \in 0..MaxSnrLen}

CEntries == {[re |-> WScale, im |-> 0], [re |-> 0, im |-> -WScale]}

\* columns of r rows: one entry a in the first j bins, zero in the others
Columns(r) == {[k \in 1..r |-> IF k <= j THEN a ELSE CZero] : a \in CEntries, j \in 1..r}

Matrices == UNION {{[rows |-> r, cols |-> c] : c \in [1..nf -> Columns(r)]} :
                      <<r, nf>> \in RowCounts \X ColCounts}

NoArgs == [window_size |-> 0, hop_length |-> 0, window_type |-> ""]

\* no SNR measured yet
NoSnr == [args |-> <<>>, val |-> [num |-> 0, den |-> 0]]

\* no FFTAnalyzer call made yet
NoCall == [fn |-> "none", signal |-> <<>>, freq |-> 0, duration |-> [num |-> 0, den |-> 1],
           sampling_rate |-> 0]

NoReturn == [kind |-> "none", val |-> <<>>, line |-> 0]

----------------------------------------------------------------------------
(* The state machine *)

\* no file REPORT.md
NoFile == [exists |-> FALSE, bytes |-> <<>>]

\* the state after construction, REPORT.md and the platform apart
InitProgram ==
    /\ init_args = NoArgs
    /\ proc = NoProc
    /\ pc = "new"
    /\ audio_signal = <<>>
    /\ stft_matrix = NoMatrix
    /\ num_frames = 0
    /\ i = 0
    /\ output_signal = <<>>
    /\ window_sum = <<>>
    /\ result = NoResult
    /\ chained = FALSE
    /\ snr_args = <<>>
    /\ original_signal = <<>>
    /\ reconstructed_signal = <<>>
    /\ pending = {}
    /\ prev_snr = NoSnr
    /\ call_args = NoCall
    /\ fft_result = <<>>
    /\ returned = NoReturn
    /\ upd_pc = "idle"
    /\ caller = ""
    /\ content = <<>>
    /\ upd_result = NoResult
    /\ calls = <<>>
    /\ header_writes = 0

Init ==
    /\ InitProgram
    /\ report = NoFile
    /\ report0 = NoFile
    /\ linesep = <<"LF">>

\* STFTProcessor.__init__
Construct(ws, hl, wt) ==
    /\ pc = "new"
    /\ init_args' = [window_size |-> ws, hop_length |-> hl, window_type |-> wt]
    /\ LET w == GetWindow(wt, ws)
       IN  IF w.ok
           THEN /\ proc' = [window_size |-> ws, hop_length |-> hl,
                            window_type |-> wt, window |-> w.window]
                /\ pc' = "idle"
                /\ result' = NoResult
           ELSE /\ proc' = proc
                /\ pc' = "failed"
                /\ result' = Raised("ValueError", 51)
    /\ UNCHANGED <<audio_signal, stft_matrix, num_frames, i, output_signal,
                   window_sum, chained, snr_args, original_signal, reconstructed_signal,
                   pending, prev_snr, fftVars, reportVars>>

NumFramesLessOne(L, W, H) == (L - W) \div H

\* number of frames of stft, line 65 (hop_length > 0); // is floor division
NumFrames(L, W, H) == 1 + (L - W) \div H

\* stft, lines 64-68: the frame count and the zero matrix
StftBegin(sig) ==
    /\ pc = "idle"
    /\ audio_signal' = sig
    /\ chained' = FALSE
    /\ i' = 0
    /\ IF proc.hop_length = 0
       THEN /\ result' = Raised("ZeroDivisionError", 65)
            /\ pc' = "returned"
            /\ UNCHANGED <<stft_matrix, num_frames, pending>>
       ELSE LET nf == NumFrames(Len(sig), proc.window_size, proc.hop_length)
            IN  IF nf < 0
                THEN /\ result' = Raised("ValueError", 68)
                     /\ pc' = "returned"
                     /\ num_frames' = nf
                     /\ UNCHANGED <<stft_matrix, pending>>
                ELSE /\ result' = NoResult
                     /\ pc' = "stft"
                     /\ num_frames' = nf
                     /\ pending' = 0..(nf - 1)
                     /\ stft_matrix' = [rows |-> proc.window_size,
                                        cols |-> [j \in 1..nf |->
                                                     [k \in 1..proc.window_size |-> CZero]]]
    /\ UNCHANGED <<init_args, proc, output_signal, window_sum,
                   snr_args, original_signal, reconstructed_signal, prev_snr, fftVars, reportVars>>

\* audio_signal[start:end], a Python slice (0-based, end exclusive, clipped)
Slice(s, start, end) ==
    LET e == Min(end, Len(s))
    IN  IF start >= e THEN <<>> ELSE [k \in 1..(e - start) |-> s[start + k]]

\* StftFrameOf with line 78 as frame *= self.window on the view audio_signal[start:end]
StftFrameInPlace(f) ==
    /\ pc = "stft"
    /\ f \in pending
    /\ LET start == f * proc.hop_length
           end == start + proc.window_size
           frame == Slice(audio_signal, start, end)
           windowed_frame == [k \in 1..Len(frame) |-> frame[k] * proc.window[k]]
       IN  /\ Len(frame) = proc.window_size
           /\ Len(windowed_frame) # 0
           /\ stft_matrix' = [stft_matrix EXCEPT !.cols[f + 1] = Fft(windowed_frame)]
           /\ audio_signal' = [n \in 1..Len(audio_signal) |->
                                  IF n > start /\ n <= end
                                  THEN windowed_frame[n - start]
                                  ELSE audio_signal[n]]
           /\ i' = i + 1
           /\ pending' = pending \ {f}
    /\ UNCHANGED <<init_args, proc, num_frames, output_signal, window_sum, result, pc,
                   chained, snr_args, original_signal, reconstructed_signal,
                   prev_snr, fftVars, reportVars>>

\* stft, lines 71-79: the body of the loop for frame f
StftFrameOf(f) ==
    /\ pc = "stft"
    /\ f \in pending
    /\ LET start == f * proc.hop_length
           end == start + proc.window_size
           frame == Slice(audio_signal, start, end)
           windowed_frame == [k \in 1..Len(frame) |-> frame[k] * proc.window[k]]
       IN  IF Len(frame) # proc.window_size
           THEN /\ result' = Raised("ValueError", 78)
                /\ pc' = "returned"
                /\ UNCHANGED <<stft_matrix, i, pending>>
           ELSE IF Len(windowed_frame) = 0
           THEN /\ result' = Raised("ValueError", 79)
                /\ pc' = "returned"
                /\ UNCHANGED <<stft_matrix, i, pending>>
           ELSE /\ stft_matrix' = [stft_matrix EXCEPT !.cols[f + 1] = Fft(windowed_frame)]
                /\ i' = i + 1
                /\ pending' = pending \ {f}
                /\ UNCHANGED <<result, pc>>
    /\ UNCHANGED <<init_args, proc, audio_signal, num_frames, output_signal, window_sum,
                   chained, snr_args, original_signal, reconstructed_signal,
                   prev_snr, fftVars, reportVars>>

\* stft, lines 70-79: one iteration of the loop, for i in range(num_frames)
StftFrame ==
    /\ i < num_frames
    /\ StftFrameOf(i)

\* stft, line 81
StftReturn ==
    /\ pc = "stft"
    /\ i = num_frames
    /\ result' = [kind |-> "matrix", val |-> stft_matrix, line |-> 81]
    /\ pc' = "returned"
    /\ UNCHANGED <<init_args, proc, audio_signal, stft_matrix, num_frames, i, output_signal,
                   window_sum, chained, snr_args, original_signal, reconstructed_signal,
                   pending, prev_snr, fftVars, reportVars>>

\* istft, line 93
ExpectedSignalLengthPlusHop(nf, H, W) == nf * H + W

ExpectedSignalLength(nf, H, W) == (nf - 1) * H + W

\* istft, lines 92-97: the expected length and the two zero accumulators
IstftBegin(m) ==
    /\ stft_matrix' = m
    /\ i' = 0
    /\ LET nf == Len(m.cols)
           expected_signal_length ==
               ExpectedSignalLength(nf, proc.hop_length, proc.window_size)
       IN  /\ num_frames' = nf
           /\ IF expected_signal_length < 0
              THEN /\ result' = Raised("ValueError", 96)
                   /\ pc' = "returned"
                   /\ UNCHANGED <<output_signal, window_sum, pending>>
              ELSE /\ result' = NoResult
                   /\ pc' = "istft"
                   /\ pending' = 0..(nf - 1)
                   /\ output_signal' = Zeros(expected_signal_length)
                   /\ window_sum' = Zeros(expected_signal_length)
    /\ UNCHANGED <<init_args, proc, snr_args, original_signal, reconstructed_signal,
                   prev_snr, fftVars, reportVars>>

\* processor.istft(stft_matrix) on the matrix processor.stft(signal) returned
IstftOfStft ==
    /\ pc = "returned"
    /\ result.kind = "matrix"
    /\ chained' = TRUE
    /\ UNCHANGED audio_signal
    /\ IstftBegin(result.val)

\* processor.istft(m) on a matrix of the caller's
IstftOfMatrix(m) ==
    /\ pc = "idle"
    /\ chained' = FALSE
    /\ UNCHANGED audio_signal
    /\ IstftBegin(m)

\* a[start:start+n] = b, the assignment in place of the addition
AddAtOverwrite(a, start, n, b) ==
    [k \in 1..Len(a) |->
        IF k > start /\ k <= start + n
        THEN b[IF Len(b) = 1 THEN 1 ELSE k - start]
        ELSE a[k]]

\* a[start:start+n] += b, b of n points or broadcast from 1 point
AddAt(a, start, n, b) ==
    [k \in 1..Len(a) |->
        IF k > start /\ k <= start + n
        THEN a[k] + b[IF Len(b) = 1 THEN 1 ELSE k - start]
        ELSE a[k]]

\* frame * self.window under numpy's broadcasting of a 1-point operand
Times(frame, window) ==
    LET n == IF Len(frame) = 1 THEN Len(window) ELSE Len(frame)
    IN  [k \in 1..n |-> frame[IF Len(frame) = 1 THEN 1 ELSE k]
                        * window[IF Len(window) = 1 THEN 1 ELSE k]]

\* whether shapes (a,) and (b,) broadcast together
Broadcasts(a, b) == a = b \/ a = 1 \/ b = 1

\* istft, lines 101-113: the body of the loop for frame f
IstftFrameOf(f) ==
    /\ pc = "istft"
    /\ f \in pending
    /\ LET col == stft_matrix.cols[f + 1]
           start == f * proc.hop_length
       IN  IF Len(col) = 0
           THEN /\ result' = Raised("ValueError", 102)
                /\ pc' = "returned"
                /\ UNCHANGED <<output_signal, window_sum, i, pending>>
           ELSE IF ~Broadcasts(Len(col), proc.window_size)
           THEN /\ result' = Raised("ValueError", 105)
                /\ pc' = "returned"
                /\ UNCHANGED <<output_signal, window_sum, i, pending>>
           ELSE LET frame == Times(IfftRealNum(col), proc.window)
                IN  IF ~(Len(frame) = proc.window_size \/ Len(frame) = 1)
                    THEN /\ result' = Raised("ValueError", 112)
                         /\ pc' = "returned"
                         /\ UNCHANGED <<output_signal, window_sum, i, pending>>
                    ELSE /\ output_signal' =
                                AddAt(output_signal, start, proc.window_size, frame)
                         /\ window_sum' =
                                AddAt(window_sum, start, proc.window_size, proc.window)
                         /\ i' = i + 1
                         /\ pending' = pending \ {f}
                         /\ UNCHANGED <<result, pc>>
    /\ UNCHANGED <<init_args, proc, audio_signal, stft_matrix, num_frames, chained,
                   snr_args, original_signal, reconstructed_signal, prev_snr, fftVars, reportVars>>

\* istft, lines 100-113: one iteration of the loop, for i in range(num_frames)
IstftFrame ==
    /\ i < num_frames
    /\ IstftFrameOf(i)

\* window_sum < 1e-6, window_sum in units of 1/WScale
BelowFloor(ws) == ws * FloorDen < WScale

FlooredNot(wsum) == wsum

\* istft, line 116: window_sum[window_sum < 1e-6] = 1
Floored(wsum) == [n \in 1..Len(wsum) |-> IF BelowFloor(wsum[n]) THEN WScale ELSE wsum[n]]

\* istft, lines 116-119: the floor, the division and the return.  Sample n of the
\* returned signal is output_signal[n] / (rows * WScale^2) divided by
\* window_sum[n] / WScale.
IstftNormalize ==
    /\ pc = "istft"
    /\ i = num_frames
    /\ window_sum' = Floored(window_sum)
    /\ result' = [kind |-> "signal",
                  val |-> [n \in 1..Len(output_signal) |->
                              [num |-> output_signal[n],
                               den |-> stft_matrix.rows * WScale * window_sum'[n]]],
                  line |-> 119]
    /\ pc' = "returned"
    /\ UNCHANGED <<init_args, proc, audio_signal, stft_matrix, num_frames, i, output_signal,
                   chained, snr_args, original_signal, reconstructed_signal,
                   pending, prev_snr, fftVars, reportVars>>

PrefixLessOne(s, n) == [k \in 1..Min(n - 1, Len(s)) |-> s[k]]

\* s[:n]
Prefix(s, n) == [k \in 1..Min(n, Len(s)) |-> s[k]]

\* compute_snr, lines 132-134: both parameters rebound to their truncations
SnrBegin(o, r) ==
    /\ pc = "idle"
    /\ snr_args' = <<o, r>>
    /\ LET min_length == Min(Len(o), Len(r))
       IN  /\ original_signal' = Prefix(o, min_length)
           /\ reconstructed_signal' = Prefix(r, min_length)
    /\ pc' = "snr"
    /\ UNCHANGED <<init_args, proc, audio_signal, stft_matrix, num_frames, i, output_signal,
                   window_sum, result, chained, pending, prev_snr, fftVars, reportVars>>

\* np.sum(a**2)
SumSq(a) == SumTo([k \in 1..Len(a) |-> a[k] * a[k]], Len(a))

\* line 138 with the quotient upside down
SnrValueInverted(signal_energy, noise_energy) ==
    [kind |-> "snr", val |-> [num |-> noise_energy, den |-> signal_energy], line |-> 140]

\* line 138 with the division of Python floats, which raises on a zero divisor
SnrValueRaising(signal_energy, noise_energy) ==
    IF noise_energy = 0
    THEN Raised("ZeroDivisionError", 138)
    ELSE [kind |-> "snr", val |-> [num |-> signal_energy, den |-> noise_energy], line |-> 140]

\* compute_snr, lines 138-140: 10 * np.log10(signal_energy / noise_energy) on numpy
\* floats.  The returned float is 10 * log10(num / den), kept as the ratio: a zero
\* den makes the quotient inf (num > 0) or nan (num = 0) and the result non-finite;
\* numpy warns and does not raise.
SnrValue(signal_energy, noise_energy) ==
    [kind |-> "snr", val |-> [num |-> signal_energy, den |-> noise_energy], line |-> 140]

\* compute_snr, lines 137-140
SnrReturn ==
    /\ pc = "snr"
    /\ LET noise == [k \in 1..Len(original_signal) |->
                        original_signal[k] - reconstructed_signal[k]]
       IN  result' = SnrValue(SumSq(original_signal), SumSq(noise))
    /\ pc' = "returned"
    /\ UNCHANGED <<init_args, proc, audio_signal, stft_matrix, num_frames, i, output_signal,
                   window_sum, chained, snr_args, original_signal, reconstructed_signal,
                   pending, prev_snr, fftVars, reportVars>>

\* the call is over: its locals and its result are dropped, the processor stays
NextCall ==
    /\ pc = "returned"
    /\ pc' = "idle"
    /\ audio_signal' = <<>>
    /\ stft_matrix' = NoMatrix
    /\ num_frames' = 0
    /\ i' = 0
    /\ output_signal' = <<>>
    /\ window_sum' = <<>>
    /\ result' = NoResult
    /\ chained' = FALSE
    /\ snr_args' = <<>>
    /\ original_signal' = <<>>
    /\ reconstructed_signal' = <<>>
    /\ pending' = {}
    /\ UNCHANGED <<init_args, proc, prev_snr, fftVars, reportVars>>

Next ==
    \/ pc = "new" /\ \E ws \in WindowSizes, hl \in HopLengths, wt \in WindowTypes :
                         Construct(ws, hl, wt)
    \/ pc = "idle" /\ \E sig \in Signals(proc.window_size) : StftBegin(sig)
    \/ StftFrame
    \/ StftReturn
    \/ IstftOfStft
    \/ pc = "idle" /\ \E m \in Matrices : IstftOfMatrix(m)
    \/ IstftFrame
    \/ IstftNormalize
    \/ pc = "idle" /\ \E o \in SnrSignals, r \in SnrSignals : SnrBegin(o, r)
    \/ SnrReturn
    \/ NextCall

Spec == Init /\ [][Next]_vars

----------------------------------------------------------------------------
(* FFTAnalyzer of src/src/fft_analysis/fft.py.  Its three functions keep no state: *)
(* each call is one step from its arguments to what it returns.  A time or a       *)
(* frequency is a fraction [num, den]; a magnitude is kept as its square           *)
(* [sq_num, sq_den]; a sample of the generated signal is kept as its three         *)
(* sinusoids, each an amplitude in hundredths and a phase in turns.                *)

FftSignals == UNION {[1..n -> Samples] : n \in FftSizes}

Call(fn, signal, freq, duration, sampling_rate) ==
    [fn |-> fn, signal |-> signal, freq |-> freq, duration |-> duration,
     sampling_rate |-> sampling_rate]

\* int(a / b) of Python, b > 0: truncation toward zero
IntOf(a, b) == IF a >= 0 THEN a \div b ELSE -((-a) \div b)

SampleCountInclusive(sampling_rate, duration) ==
    IntOf(sampling_rate * duration.num, duration.den) + 1

\* generate_signal, line 40: int(sampling_rate * duration)
SampleCount(sampling_rate, duration) ==
    IntOf(sampling_rate * duration.num, duration.den)

\* np.linspace(0, duration, n, endpoint=False): k * duration / n for k = 0..n-1
Linspace(duration, n) ==
    [k \in 1..n |-> [num |-> (k - 1) * duration.num, den |-> duration.den * n]]

\* generate_signal, lines 41-43: sin(2 pi freq t) + 0.5 sin(2 pi 2 freq t)
\* + 0.25 sin(2 pi 3 freq t), the three terms unevaluated
Tone(freq, t) ==
    <<[amp |-> 100, turns |-> [num |-> freq * t.num, den |-> t.den]],
      [amp |-> 50, turns |-> [num |-> 2 * freq * t.num, den |-> t.den]],
      [amp |-> 25, turns |-> [num |-> 3 * freq * t.num, den |-> t.den]]>>

\* FFTAnalyzer.generate_signal
GenerateSignal(freq, duration, sampling_rate) ==
    /\ call_args = NoCall
    /\ call_args' = Call("generate_signal", <<>>, freq, duration, sampling_rate)
    /\ LET n == SampleCount(sampling_rate, duration)
           t == Linspace(duration, n)
       IN  returned' =
               IF n < 0
               THEN Raised("ValueError", 40)
               ELSE [kind |-> "generated",
                     val |-> [t |-> t,
                              signal |-> [k \in 1..n |-> Tone(freq, t[k])],
                              freqs |-> <<freq, 2 * freq, 3 * freq>>],
                     line |-> 45]
    /\ UNCHANGED <<fft_result, stftVars, reportVars>>

\* FftFreq without the wrap of the upper bins to negative frequencies
FftFreqUnsigned(n, sampling_rate) ==
    [k \in 1..n |-> [num |-> (k - 1) * sampling_rate, den |-> n]]

\* np.fft.fftfreq(n, 1/sampling_rate): bins 0..(n-1)//2 then -(n//2)..-1, each
\* times sampling_rate / n
FftFreq(n, sampling_rate) ==
    [k \in 1..n |->
        [num |-> (IF k - 1 <= (n - 1) \div 2 THEN k - 1 ELSE k - 1 - n) * sampling_rate,
         den |-> n]]

\* a[mask] for a boolean array mask
Masked(a, mask) ==
    LET kept == {k \in 1..Len(a) : mask[k]}
        rank(k) == Cardinality({j \in kept : j <= k})
    IN  [r \in 1..Cardinality(kept) |-> a[CHOOSE k \in kept : rank(k) = r]]

\* np.abs(z) / n * 2, squared
Magnitude(z, n) == [sq_num |-> 4 * (z.re * z.re + z.im * z.im), sq_den |-> n * n]

\* FFTAnalyzer.perform_fft
PerformFft(signal, sampling_rate) ==
    /\ call_args = NoCall
    /\ call_args' = Call("perform_fft", signal, 0, [num |-> 0, den |-> 1], sampling_rate)
    /\ LET n == Len(signal)
           freq == FftFreq(n, sampling_rate)
           magnitude == [k \in 1..n |-> Magnitude(Fft(signal)[k], n)]
           positive_freq_mask == [k \in 1..n |-> freq[k].num >= 0]
       IN  returned' =
               IF n = 0 THEN Raised("ValueError", 58)
               ELSE IF sampling_rate = 0 THEN Raised("ZeroDivisionError", 59)
               ELSE [kind |-> "spectrum",
                     val |-> [freq |-> Masked(freq, positive_freq_mask),
                              magnitude |-> Masked(magnitude, positive_freq_mask)],
                     line |-> 63]
    /\ UNCHANGED <<fft_result, stftVars, reportVars>>

\* fft_result = np.fft.fft(signal), the caller's full forward transform
ForwardFft(signal) ==
    /\ call_args = NoCall
    /\ call_args' = Call("np.fft.fft", signal, 0, [num |-> 0, den |-> 1], 0)
    /\ IF Len(signal) = 0
       THEN /\ returned' = Raised("ValueError", 58)
            /\ fft_result' = <<>>
       ELSE /\ returned' = [kind |-> "transform", val |-> Fft(signal), line |-> 58]
            /\ fft_result' = Fft(signal)
    /\ UNCHANGED <<stftVars, reportVars>>

\* FFTAnalyzer.perform_ifft on the caller's fft_result.  Sample n of the returned
\* signal is the fraction num / den.
PerformIfft ==
    /\ call_args.fn = "np.fft.fft"
    /\ returned.kind = "transform"
    /\ call_args' = [call_args EXCEPT !.fn = "perform_ifft"]
    /\ returned' = [kind |-> "reconstructed",
                    val |-> [n \in 1..Len(fft_result) |->
                                [num |-> IfftRealNum(fft_result)[n],
                                 den |-> Len(fft_result)]],
                    line |-> 74]
    /\ UNCHANGED <<fft_result, stftVars, reportVars>>

\* the call is over: its arguments and what it returned are dropped
FftNextCall ==
    /\ call_args # NoCall
    /\ call_args' = NoCall
    /\ fft_result' = <<>>
    /\ returned' = NoReturn
    /\ UNCHANGED <<stftVars, reportVars>>

NextFft ==
    \/ call_args = NoCall
       /\ \E freq \in Freqs, duration \in Durations, sampling_rate \in SamplingRates :
              GenerateSignal(freq, duration, sampling_rate)
    \/ call_args = NoCall
       /\ \E signal \in FftSignals, sampling_rate \in SamplingRates :
              PerformFft(signal, sampling_rate)
    \/ call_args = NoCall /\ \E signal \in FftSignals : ForwardFft(signal)
    \/ PerformIfft
    \/ FftNextCall

SpecFft == Init /\ [][NextFft]_vars

----------------------------------------------------------------------------
(* Two SNR measurements of one original signal, the first kept by the caller *)

\* snr = processor.compute_snr(...): the caller keeps the measurement
SnrKeep ==
    /\ pc = "returned"
    /\ result.kind = "snr"
    /\ prev_snr = NoSnr
    /\ prev_snr' = [args |-> snr_args, val |-> result.val]
    /\ pc' = "idle"
    /\ result' = NoResult
    /\ snr_args' = <<>>
    /\ original_signal' = <<>>
    /\ reconstructed_signal' = <<>>
    /\ UNCHANGED <<init_args, proc, audio_signal, stft_matrix, num_frames, i, output_signal,
                   window_sum, chained, pending, fftVars, reportVars>>

NextSnr ==
    \/ pc = "new" /\ Construct(4, 2, "hann")
    \/ pc = "idle" /\ \E o \in ComparedSignals, r \in ComparedSignals :
                          /\ prev_snr # NoSnr => o = prev_snr.args[1]
                          /\ SnrBegin(o, r)
    \/ SnrReturn
    \/ SnrKeep

SpecSnr == Init /\ [][NextSnr]_vars

----------------------------------------------------------------------------
(* The loops with their frames taken in any order: the body of each loop for one *)
(* frame is one step, and any frame not yet done may be the next.               *)

NextAnyOrder ==
    \/ pc = "new" /\ \E ws \in WindowSizes, hl \in HopLengths, wt \in WindowTypes :
                         Construct(ws, hl, wt)
    \/ pc = "idle" /\ \E sig \in Signals(proc.window_size) :
                          /\ Len(sig) <= proc.window_size + MaxExtraAnyOrder
                          /\ StftBegin(sig)
    \/ pc = "stft" /\ \E f \in pending : StftFrameOf(f)
    \/ StftReturn
    \/ IstftOfStft
    \/ pc = "idle" /\ \E m \in Matrices : IstftOfMatrix(m)
    \/ pc = "istft" /\ \E f \in pending : IstftFrameOf(f)
    \/ IstftNormalize
    \/ NextCall

SpecAnyOrder == Init /\ [][NextAnyOrder]_vars

----------------------------------------------------------------------------
(* update_report of src/examples/stft_example.py, FFTAnalyzer and                *)
(* MelSpectrogramAnalyzer on the one file REPORT.md.  The file is a sequence of  *)
(* characters: "a" for any ordinary character, "LF" and "CR" for the line feed    *)
(* and the carriage return, "BAD" for a byte that is not UTF-8, and one character *)
(* for the text of each header and of each entry.  The calls are made one after   *)
(* another.                                                                       *)

Callers == {"stft", "fft", "mel"}

\* the characters a REPORT.md written by someone else may hold
FileChars == {"a", "LF", "CR", "BAD"}

\* the files that may stand before the first call
Files == {NoFile} \cup
         {[exists |-> TRUE, bytes |-> b] :
             b \in UNION {[1..n -> FileChars] : n \in 0..MaxReportLen}}

\* os.linesep: "\n" on POSIX, "\r\n" on Windows
LineSeps == {<<"LF">>, <<"CR", "LF">>}

\* the header of each update_report: a title line and an empty line
Header(who) ==
    CASE who = "stft" -> <<"H_stft", "LF", "LF">>
      [] who = "fft" -> <<"H_fft", "LF", "LF">>
      [] OTHER -> <<"H_mel", "LF", "LF">>

\* new_entry of each update_report: it opens with a line feed and ends with one
Entry(who) ==
    CASE who = "stft" -> <<"LF", "E_stft", "LF">>
      [] who = "fft" -> <<"LF", "E_fft", "LF">>
      [] OTHER -> <<"LF", "E_mel", "LF">>

\* the line of open(report_path, 'r') in each update_report
ReadLine(who) ==
    CASE who = "stft" -> 90
      [] who = "fft" -> 169
      [] OTHER -> 130

RECURSIVE Decode(_)
\* f.read() of a file opened with open(path, 'r', encoding='utf-8'): universal
\* newlines, "\r\n" and "\r" are read as "\n"
Decode(b) ==
    IF b = <<>> THEN <<>>
    ELSE IF Head(b) = "CR"
         THEN IF Len(b) >= 2 /\ b[2] = "LF"
              THEN <<"LF">> \o Decode(SubSeq(b, 3, Len(b)))
              ELSE <<"LF">> \o Decode(Tail(b))
         ELSE <<Head(b)>> \o Decode(Tail(b))

RECURSIVE Encode(_)
\* f.write(text) on a file opened with open(path, 'w', encoding='utf-8'): every
\* "\n" is written as os.linesep
Encode(text) ==
    IF text = <<>> THEN <<>>
    ELSE (IF Head(text) = "LF" THEN linesep ELSE <<Head(text)>>) \o Encode(Tail(text))

\* whether the bytes are UTF-8
Decodable(b) == \A k \in 1..Len(b) : b[k] # "BAD"

\* a script calls update_report
UpdateReport(who) ==
    /\ upd_pc = "idle"
    /\ Len(calls) < MaxCalls
    /\ upd_pc' = "exists"
    /\ caller' = who
    /\ calls' = Append(calls, who)
    /\ content' = <<>>
    /\ upd_result' = NoResult
    /\ UNCHANGED <<report, linesep, report0, header_writes, stftVars, fftVars>>

\* if not os.path.exists(report_path)
ReportExists ==
    /\ upd_pc = "exists"
    /\ upd_pc' = IF report.exists THEN "read" ELSE "header"
    /\ UNCHANGED <<report, linesep, caller, content, upd_result, report0, calls,
                   header_writes, stftVars, fftVars>>

\* with open(report_path, 'w', encoding='utf-8') as f: f.write(header)
WriteHeader ==
    /\ upd_pc = "header"
    /\ report' = [exists |-> TRUE, bytes |-> Encode(Header(caller))]
    /\ header_writes' = header_writes + 1
    /\ upd_pc' = "read"
    /\ UNCHANGED <<linesep, caller, content, upd_result, report0, calls,
                   stftVars, fftVars>>

\* try: with open(report_path, 'r', encoding='utf-8') as f: content = f.read()
\* except FileNotFoundError: content = header
ReadReport ==
    /\ upd_pc = "read"
    /\ IF ~report.exists
       THEN /\ content' = Header(caller)
            /\ upd_pc' = "write"
            /\ UNCHANGED upd_result
       ELSE IF ~Decodable(report.bytes)
       THEN /\ upd_result' = Raised("UnicodeDecodeError", ReadLine(caller) + 1)
            /\ upd_pc' = "idle"
            /\ UNCHANGED content
       ELSE /\ content' = Decode(report.bytes)
            /\ upd_pc' = "write"
            /\ UNCHANGED upd_result
    /\ UNCHANGED <<report, linesep, caller, report0, calls, header_writes,
                   stftVars, fftVars>>

\* with open(report_path, 'w', encoding='utf-8') as f: f.write(content + new_entry)
WriteReport ==
    /\ upd_pc = "write"
    /\ report' = [exists |-> TRUE, bytes |-> Encode(content \o Entry(caller))]
    /\ upd_pc' = "idle"
    /\ UNCHANGED <<linesep, caller, content, upd_result, report0, calls, header_writes,
                   stftVars, fftVars>>

InitReport ==
    /\ InitProgram
    /\ report \in Files
    /\ report0 = report
    /\ linesep \in LineSeps

NextReport ==
    \/ \E who \in Callers : UpdateReport(who)
    \/ ReportExists
    \/ WriteHeader
    \/ ReadReport
    \/ WriteReport

SpecReport == InitReport /\ [][NextReport]_vars

----------------------------------------------------------------------------
(* Properties *)

\* the call that is running or has just returned
InStft == pc = "stft" \/ (pc = "returned" /\ result.line \in {65, 68, 78, 79, 81})

InIstft == pc = "istft" \/ (pc = "returned" /\ result.line \in {96, 102, 105, 112, 119})

\* istft(stft(audio_signal)) has returned
RoundTripDone == pc = "returned" /\ chained /\ result.kind = "signal"

\* reconstructed sample n (1-based) equals the original sample n
SameSample(n) == result.val[n].num = audio_signal[n] * result.val[n].den

\* sum of the window coefficients that meet at offset r when the window is
\* repeated every H samples (H divides the window length)
OverlapSum(window, H, r) ==
    SumTo([k \in 1..(Len(window) \div H) |-> window[r + (k - 1) * H + 1]], Len(window) \div H)

\* the hop evenly tiles the window and the shifted windows add up to a constant
ConstantOverlapAdd(p) ==
    /\ p.hop_length >= 1
    /\ p.window_size >= 1
    /\ p.window_size % p.hop_length = 0
    /\ \A r \in 0..(p.hop_length - 1) :
           OverlapSum(p.window, p.hop_length, r) = OverlapSum(p.window, p.hop_length, 0)
    /\ OverlapSum(p.window, p.hop_length, 0) > 0

\* C1: with a hop that evenly tiles the window and a constant-overlap-add window,
\* istft(stft(signal)) cut to the shorter length equals the signal on every
\* interior sample, those at least window_size away from both ends.  Stated for
\* the window the claim names, hann.
C1_RoundTripIdentity ==
    (/\ RoundTripDone
     /\ proc.window_type = "hann"
     /\ ConstantOverlapAdd(proc)
     /\ Len(audio_signal) >= proc.window_size)
    => \A n \in 1..Min(Len(audio_signal), Len(result.val)) :
           (/\ n - 1 >= proc.window_size
            /\ n - 1 < Min(Len(audio_signal), Len(result.val)) - proc.window_size)
           => SameSample(n)

\* the frames (0-based) whose span covers position p (0-based), were there no ends
FramesOver(p, H, W) == {j \in 0..p : j * H <= p /\ p < j * H + W}

\* position p (0-based) is covered by every frame that could cover it, at least two
FullyCovered(p, H, W, nf) ==
    /\ p >= W - 1
    /\ p <= (nf - 1) * H
    /\ Cardinality(FramesOver(p, H, W)) >= 2

\* C2: on a constant signal, every sample of istft(stft(signal)) that overlapping
\* windows fully cover has the amplitude of the input, for every supported window
\* and every hop_length <= window_size.
C2_EnergyNormalization ==
    (/\ RoundTripDone
     /\ proc.hop_length >= 1
     /\ proc.hop_length <= proc.window_size
     /\ Changes(audio_signal) = 0)
    => \A n \in 1..Len(result.val) :
           FullyCovered(n - 1, proc.hop_length, proc.window_size, num_frames)
           => SameSample(n)

\* column j (1-based) of matrix M is the transform of the windowed samples
\* [(j-1)*H, (j-1)*H + W): its inverse transform gives them back, and it has the
\* conjugate symmetry of the transform of a real frame
ColumnIsTransform(M, j) ==
    LET W == proc.window_size
        col == M.cols[j]
    IN  /\ Len(col) = W
        /\ \A k \in 1..W :
               /\ IfftRealNum(col)[k] =
                      W * audio_signal[(j - 1) * proc.hop_length + k] * proc.window[k]
               /\ col[k].re = col[((W - (k - 1)) % W) + 1].re
               /\ col[k].im = -col[((W - (k - 1)) % W) + 1].im

\* the matrix stft returned for audio_signal
StftShape ==
    /\ result.val.rows = proc.window_size
    /\ Len(result.val.cols) =
           1 + (Len(audio_signal) - proc.window_size) \div proc.hop_length
    /\ \A j \in 1..Len(result.val.cols) : ColumnIsTransform(result.val, j)

\* C3: for L >= W >= 1 and H >= 1, stft returns W rows and 1 + floor((L - W) / H)
\* columns, column i being the transform of the windowed samples [i*H, i*H + W),
\* and the step for frame i writes column i and no other.
C3_ShapeInvariant ==
    [][/\ (pc = "stft" /\ pc' = "stft")
          => \A j \in 1..Len(stft_matrix.cols) :
                 j # i + 1 => stft_matrix'.cols[j] = stft_matrix.cols[j]
       /\ (/\ pc' = "returned"
           /\ result'.kind = "matrix"
           /\ proc'.window_size >= 1
           /\ Len(audio_signal') >= proc'.window_size)
          => StftShape']_vars

C3_Witness ==
    /\ pc = "returned"
    /\ result.kind = "matrix"
    /\ Len(result.val.cols) >= 3
    /\ proc.hop_length = 2
    /\ (Len(audio_signal) - proc.window_size) % proc.hop_length # 0

AllZero(a) == \A n \in 1..Len(a) : a[n] = 0

\* C4: in istft both accumulators have (frame_count - 1) * hop_length + window_size
\* samples and are all zeros before the first frame, and the returned signal has
\* that many samples.
C4_ReconstructionLength ==
    LET n == (Len(stft_matrix.cols) - 1) * proc.hop_length + proc.window_size
    IN  /\ pc = "istft"
           => /\ Len(output_signal) = n
              /\ Len(window_sum) = n
              /\ i = 0 => (AllZero(output_signal) /\ AllZero(window_sum))
        /\ (pc = "returned" /\ result.kind = "signal") => Len(result.val) = n

C4_Witness ==
    /\ pc = "returned"
    /\ result.kind = "signal"
    /\ num_frames = 3
    /\ Len(result.val) = 8

\* the configuration surface: 0 < hop_length <= window_size
ValidSizes(p) == 0 < p.hop_length /\ p.hop_length <= p.window_size

\* C5: stft of a signal shorter than window_size raises at the frame-count
\* computation; it never goes on to the frames and never returns a matrix.  Stated
\* for processors with 0 < hop_length <= window_size and non-empty signals.
C5_InputTooShort ==
    (/\ InStft
     /\ ValidSizes(proc)
     /\ Len(audio_signal) >= 1
     /\ Len(audio_signal) < proc.window_size)
    => (pc = "returned" /\ result.kind = "error" /\ result.line \in {65, 68})

\* C6: a constructor call with a window_type outside {hann, hamming, blackman,
\* bartlett} raises and leaves no processor, so every processor has a supported
\* window_type; a call with a window_type inside the set gives a processor whose
\* window has window_size coefficients.
C6_WindowTypeValidated ==
    LET supported == {"hann", "hamming", "blackman", "bartlett"}
    IN  pc # "new"
        => /\ init_args.window_type \notin supported
              => (pc = "failed" /\ proc = NoProc /\ result.kind = "error")
           /\ init_args.window_type \in supported
              => /\ pc # "failed"
                 /\ proc.window_type = init_args.window_type
                 /\ proc.window_size = init_args.window_size
                 /\ Len(proc.window) = init_args.window_size

C6_Witness ==
    /\ pc = "failed"
    /\ init_args.window_type = "kaiser"
    /\ result.kind = "error"

\* C7: every constructed processor has 0 < hop_length <= window_size: the
\* constructor raises on window_size <= 0, hop_length <= 0 and
\* hop_length > window_size.
C7_SizesValidated ==
    pc \notin {"new", "failed"}
    => /\ 0 < proc.window_size
       /\ 0 < proc.hop_length
       /\ proc.hop_length <= proc.window_size

\* C8: istft of a matrix whose row count differs from window_size raises, and
\* raises before anything is added to either accumulator.  Stated for processors
\* with 0 < hop_length <= window_size and matrices with at least one column.
C8_DimensionMismatch ==
    (/\ InIstft
     /\ ValidSizes(proc)
     /\ Len(stft_matrix.cols) >= 1
     /\ stft_matrix.rows # proc.window_size)
    => /\ pc = "istft" => i = 0
       /\ pc = "returned"
          => /\ result.kind = "error"
             /\ AllZero(output_signal)
             /\ AllZero(window_sum)

\* C9: when istft normalizes, every position whose accumulated window sum is
\* below 1e-6 is divided by 1, and no sample of the returned signal is non-finite.
C9_EdgeFloor ==
    [][(pc = "istft" /\ pc' = "returned" /\ result'.kind = "signal")
       => \A n \in 1..Len(output_signal) :
              /\ result'.val[n].den # 0
              /\ window_sum[n] * 1000000 < WScale
                 => result'.val[n] = [num |-> output_signal[n],
                                      den |-> stft_matrix.rows * WScale * WScale]]_vars

C9_Witness ==
    /\ pc = "returned"
    /\ result.kind = "signal"
    /\ chained
    /\ proc.window_type = "hann"
    /\ proc.window_size = 4
    /\ proc.window[1] = 0
    /\ num_frames >= 2
    /\ result.val[1].den = stft_matrix.rows * WScale * WScale

\* the processor a fresh constructor call with the same arguments gives
FreshProcessor ==
    [window_size |-> init_args.window_size,
     hop_length |-> init_args.hop_length,
     window_type |-> init_args.window_type,
     window |-> GetWindow(init_args.window_type, init_args.window_size).window]

\* the matrix of processor p for signal sig, as a function of p and sig alone
StftOn(p, sig) ==
    LET W == p.window_size
        H == p.hop_length
    IN  [rows |-> W,
         cols |-> [j \in 1..(1 + (Len(sig) - W) \div H) |->
                      Fft([k \in 1..W |-> sig[(j - 1) * H + k] * p.window[k]])]]

\* contribution of frame j (1-based) to position n (1-based): f[n - (j-1)*H] or 0
FrameAt(f, j, n, H) ==
    IF (j - 1) * H < n /\ n <= (j - 1) * H + Len(f) THEN f[n - (j - 1) * H] ELSE 0

\* the signal of processor p for a matrix m of window_size rows, as a function of
\* p and m alone
IstftOn(p, m) ==
    LET W == p.window_size
        H == p.hop_length
        nf == Len(m.cols)
        frame(j) == [k \in 1..W |-> IfftRealNum(m.cols[j])[k] * p.window[k]]
        acc(n) == SumTo([j \in 1..nf |-> FrameAt(frame(j), j, n, H)], nf)
        wsum(n) == SumTo([j \in 1..nf |-> FrameAt(p.window, j, n, H)], nf)
    IN  [n \in 1..((nf - 1) * H + W) |->
            [num |-> acc(n),
             den |-> m.rows * WScale
                     * (IF wsum(n) * 1000000 < WScale THEN WScale ELSE wsum(n))]]

\* C10: no step of stft, istft or compute_snr, failing or not, changes the
\* processor's window_size, hop_length, window_type or window, nor the caller's
\* arrays, and what a call returns is what a fresh processor with the same
\* configuration returns for the same input.
C10_Stateless ==
    [][pc # "new"
       => /\ proc' = proc
          /\ proc = FreshProcessor
          /\ pc = "stft" => audio_signal' = audio_signal
          /\ pc = "istft" => (stft_matrix' = stft_matrix /\ audio_signal' = audio_signal)
          /\ pc = "snr" => snr_args' = snr_args
          /\ (pc = "stft" /\ result'.kind = "matrix" /\ proc.window_size >= 1)
             => result'.val = StftOn(FreshProcessor, audio_signal)
          /\ (/\ pc = "istft"
              /\ result'.kind = "signal"
              /\ proc.hop_length >= 1
              /\ stft_matrix.rows = proc.window_size)
             => result'.val = IstftOn(FreshProcessor, stft_matrix)]_vars

C10_Witness ==
    /\ pc = "returned"
    /\ chained
    /\ result.kind = "signal"
    /\ num_frames >= 3
    /\ proc = FreshProcessor
    /\ result.val = IstftOn(FreshProcessor, StftOn(FreshProcessor, audio_signal))

\* compute_snr has returned or raised
SnrDone == pc = "returned" /\ snr_args # <<>>

\* C11: compute_snr of arrays o and r uses the first min(len(o), len(r)) samples of
\* each and no other: the signal energy is the sum of o[k]^2 and the noise energy
\* the sum of (o[k] - r[k])^2 over those samples, and the value returned is
\* 10 * log10 of their quotient.
C11_SnrDefinition ==
    (SnrDone /\ result.kind = "snr")
    => LET o == snr_args[1]
           r == snr_args[2]
           n == IF Len(o) < Len(r) THEN Len(o) ELSE Len(r)
       IN  /\ Len(original_signal) = n
           /\ Len(reconstructed_signal) = n
           /\ result.val.num = SumTo([k \in 1..n |-> o[k] * o[k]], n)
           /\ result.val.den = SumTo([k \in 1..n |-> (o[k] - r[k]) * (o[k] - r[k])], n)

C11_Witness ==
    /\ SnrDone
    /\ result.kind = "snr"
    /\ Len(snr_args[1]) = 2
    /\ Len(snr_args[2]) = 1
    /\ snr_args[1][1] # snr_args[2][1]
    /\ result.val = [num |-> snr_args[1][1] * snr_args[1][1], den |-> 9]

\* C12: when the truncated arrays are identical the noise energy is zero, and
\* compute_snr does not raise: it returns a value, a non-finite one.
C12_ZeroNoise ==
    (SnrDone /\ original_signal = reconstructed_signal)
    => (result.kind = "snr" /\ result.val.den = 0)

C12_Witness ==
    /\ SnrDone
    /\ original_signal = reconstructed_signal
    /\ Len(original_signal) = 1
    /\ Len(snr_args[1]) > Len(snr_args[2])
    /\ result.kind = "snr"
    /\ result.val.num > 0
    /\ result.val.den = 0

\* C20: for L >= window_size and hop_length > 0, istft(stft(signal)) has
\* L - ((L - window_size) mod hop_length) samples, at most L and fewer than
\* hop_length short of L, and the trailing (L - window_size) mod hop_length samples
\* of the signal are never read: whatever stands there, the matrix and the
\* reconstruction are those of the signal without them.
C20_NeverOutgrowsInput ==
    (/\ RoundTripDone
     /\ proc.hop_length > 0
     /\ proc.window_size >= 1
     /\ Len(audio_signal) >= proc.window_size)
    => LET L == Len(audio_signal)
           unread == (L - proc.window_size) % proc.hop_length
           read == Prefix(audio_signal, L - unread)
       IN  /\ Len(result.val) = L - unread
           /\ Len(result.val) <= L
           /\ L - Len(result.val) < proc.hop_length
           /\ \A tail \in [1..unread -> Samples] :
                  stft_matrix = StftOn(proc, read \o tail)
           /\ stft_matrix = StftOn(proc, read)
           /\ result.val = IstftOn(proc, StftOn(proc, read))

C20_Witness ==
    /\ RoundTripDone
    /\ proc.window_size = 2
    /\ proc.hop_length = 3
    /\ Len(audio_signal) = 7
    /\ Len(result.val) = 5
    /\ audio_signal[6] # audio_signal[7]

\* frame j (1-based) of istft: the real part of the inverse transform of column j
\* of stft_matrix, times the window, in units of 1/(rows * WScale^2)
WindowedFrame(j) ==
    LET x == IfftRealNum(stft_matrix.cols[j])
    IN  [k \in 1..proc.window_size |->
            x[IF Len(x) = 1 THEN 1 ELSE k] * proc.window[k]]

\* C17: the step of istft's loop for frame i adds the frame's samples into the
\* signal accumulator at [i*hop_length, i*hop_length + window_size), each at its
\* offset, and the raw window coefficients into the window-sum accumulator at the
\* same positions, and changes no other position; once all frames are done every
\* position holds the sum of the contributions of exactly the frames covering it.
C17_OverlapAddPlacement ==
    [][(pc = "istft" /\ pc' = "istft")
       => \A frames \in {[j \in 1..num_frames |-> WindowedFrame(j)]} :  \* computed once
          /\ output_signal' =
                 [n \in 1..Len(output_signal) |->
                     output_signal[n]
                     + FrameAt(frames[i + 1], i + 1, n, proc.hop_length)]
          /\ window_sum' =
                 [n \in 1..Len(window_sum) |->
                     window_sum[n] + FrameAt(proc.window, i + 1, n, proc.hop_length)]
          /\ i' = num_frames
             => \A n \in 1..Len(output_signal) :
                    /\ output_signal'[n] =
                           SumTo([j \in 1..num_frames |->
                                     FrameAt(frames[j], j, n, proc.hop_length)],
                                 num_frames)
                    /\ window_sum'[n] =
                           SumTo([j \in 1..num_frames |->
                                     FrameAt(proc.window, j, n, proc.hop_length)],
                                 num_frames)]_vars

C17_Witness ==
    /\ pc = "istft"
    /\ chained
    /\ proc.window_type = "hamming"
    /\ proc.window_size = 4
    /\ proc.hop_length = 2
    /\ num_frames = 3
    /\ i = num_frames
    /\ window_sum[3] = proc.window[3] + proc.window[1]
    /\ window_sum[2] = proc.window[2]
    /\ output_signal[3] # 0

\* istft has accumulated every frame and has not yet applied the floor of line 116
AllFramesAdded == pc = "istft" /\ i = num_frames /\ proc.hop_length >= 1

\* position p (0-based) of a signal of len samples is less than window_size away
\* from its head or from its tail
NearEnd(p, W, len) == p < W \/ p >= len - W

\* position p (0-based) is covered by fewer of the nf frames than a position far
\* from both ends: a frame before frame 0 or after frame nf-1 would cover it
FewerFrames(p, H, W, nf) == p < W - H \/ p >= nf * H

\* C18, as stated: for every hop_length <= window_size and every supported
\* window, the positions whose accumulated window sum is below 1e-6 are less than
\* window_size away from the head or the tail, and the accumulated signal is 0 there.
C18_FloorAtEdgesAnyHop ==
    (AllFramesAdded /\ proc.hop_length <= proc.window_size)
    => \A n \in 1..Len(window_sum) :
           BelowFloor(window_sum[n])
           => /\ NearEnd(n - 1, proc.window_size, Len(window_sum))
              /\ output_signal[n] = 0

\* C18, amended: for hop_length <= window_size / 2 and every supported window,
\* the positions whose accumulated window sum is below 1e-6 are positions that
\* fewer frames cover than in the interior, at the head or the tail, every window
\* coefficient laid on them is below 1e-6, and the accumulated signal is 0 there.
C18_FloorAtEdges ==
    (AllFramesAdded /\ 2 * proc.hop_length <= proc.window_size)
    => \A n \in 1..Len(window_sum) :
           BelowFloor(window_sum[n])
           => /\ FewerFrames(n - 1, proc.hop_length, proc.window_size, num_frames)
              /\ NearEnd(n - 1, proc.window_size, Len(window_sum))
              /\ \A j \in 1..num_frames :
                     BelowFloor(FrameAt(proc.window, j, n, proc.hop_length))
              /\ output_signal[n] = 0

C18_Witness ==
    /\ AllFramesAdded
    /\ chained
    /\ proc.window_type = "blackman"
    /\ proc.window_size = 4
    /\ proc.hop_length = 2
    /\ num_frames = 3
    /\ BelowFloor(window_sum[1])
    /\ output_signal[1] = 0
    /\ \A n \in 2..Len(window_sum) : ~BelowFloor(window_sum[n])

\* the frames (1-based) the running loop has done
Done == {j \in 1..num_frames : j - 1 \notin pending}

\* the sum of s[j] over the frames j done
SumDone(s) == SumTo([j \in 1..num_frames |-> IF j \in Done THEN s[j] ELSE 0], num_frames)

\* C19: with the frames of stft and of istft taken in any order, each step of stft
\* writes the column of its frame and no other, each step of istft adds its
\* frame's contribution, and the matrix, the accumulators and the reconstruction
\* are those the loops give when they take the frames in sequence.
C19_OrderIndependence ==
    /\ (pc = "stft" /\ proc.window_size >= 1)
       => \A j \in 1..num_frames :
              stft_matrix.cols[j] =
                  IF j \in Done
                  THEN StftOn(proc, audio_signal).cols[j]
                  ELSE [k \in 1..proc.window_size |-> CZero]
    /\ (pc = "returned" /\ result.kind = "matrix" /\ proc.window_size >= 1)
       => result.val = StftOn(proc, audio_signal)
    /\ pc = "istft"
       => LET frames == [j \in 1..num_frames |-> WindowedFrame(j)]
          IN  \A n \in 1..Len(output_signal) :
                  LET sample == [j \in 1..num_frames |->
                                    FrameAt(frames[j], j, n, proc.hop_length)]
                      coef == [j \in 1..num_frames |->
                                  FrameAt(proc.window, j, n, proc.hop_length)]
                  IN  /\ output_signal[n] = SumDone(sample)
                      /\ window_sum[n] = SumDone(coef)
    /\ (/\ pc = "returned"
        /\ result.kind = "signal"
        /\ proc.hop_length >= 1
        /\ stft_matrix.rows = proc.window_size)
       => result.val = IstftOn(proc, stft_matrix)

\* frame 1 of three overlapping frames was added first, frames 0 and 2 are to come
C19_Witness ==
    /\ pc = "istft"
    /\ chained
    /\ num_frames = 3
    /\ pending = {0, 2}
    /\ proc.hop_length < proc.window_size
    /\ output_signal[proc.hop_length + 1] # 0
    /\ window_sum[proc.hop_length + proc.window_size] # 0

\* the noise energy of reconstruction r against original o: the sum of the squared
\* differences over the samples both have
NoiseEnergy(o, r) ==
    LET n == Min(Len(o), Len(r))
    IN  SumTo([k \in 1..n |-> (o[k] - r[k]) * (o[k] - r[k])], n)

\* 10 * log10(a.num / a.den) < 10 * log10(b.num / b.den) as floats: a is finite or
\* -inf, b is not nan, and the quotients compare
SnrLess(a, b) ==
    /\ a.den # 0
    /\ b.den = 0 => b.num > 0
    /\ a.num * b.den < b.num * a.den

\* compute_snr has returned for the second of two reconstructions of one original
SecondMeasurement ==
    /\ SnrDone
    /\ result.kind = "snr"
    /\ prev_snr # NoSnr
    /\ snr_args[1] = prev_snr.args[1]

\* C13, as stated: for one original signal with non-zero energy, a reconstruction
\* with strictly larger noise energy than another gets a strictly smaller SNR.
\* Stated for reconstructions that both leave the cut original non-zero energy.
C13_SnrMonotone ==
    (/\ SecondMeasurement
     /\ SumSq(snr_args[1]) > 0
     /\ SumSq(Prefix(snr_args[1], Len(snr_args[2]))) > 0
     /\ SumSq(Prefix(snr_args[1], Len(prev_snr.args[2]))) > 0
     /\ NoiseEnergy(snr_args[1], snr_args[2])
            > NoiseEnergy(prev_snr.args[1], prev_snr.args[2]))
    => SnrLess(result.val, prev_snr.val)

\* C13, amended: for one original signal and two reconstructions that cut it to
\* the same length, the cut original having non-zero energy, the reconstruction
\* with strictly larger noise energy gets a strictly smaller SNR.
C13_SnrMonotoneSameLength ==
    (/\ SecondMeasurement
     /\ Min(Len(snr_args[1]), Len(snr_args[2]))
            = Min(Len(prev_snr.args[1]), Len(prev_snr.args[2]))
     /\ SumSq(original_signal) > 0
     /\ NoiseEnergy(snr_args[1], snr_args[2])
            > NoiseEnergy(prev_snr.args[1], prev_snr.args[2]))
    => SnrLess(result.val, prev_snr.val)

C13_Witness ==
    /\ SecondMeasurement
    /\ Len(snr_args[1]) = 2
    /\ Len(snr_args[2]) = 2
    /\ Len(prev_snr.args[2]) = 2
    /\ prev_snr.val.den > 0
    /\ result.val.den > prev_snr.val.den
    /\ result.val.num = prev_snr.val.num
    /\ SnrLess(result.val, prev_snr.val)

\* C14: perform_ifft on the full forward transform of a real signal returns a real
\* signal of the same length, every sample equal to the signal's.
C14_FftRoundTrip ==
    returned.kind = "reconstructed"
    => /\ Len(returned.val) = Len(call_args.signal)
       /\ \A n \in 1..Len(returned.val) :
              returned.val[n].num = call_args.signal[n] * returned.val[n].den

C14_Witness ==
    /\ returned.kind = "reconstructed"
    /\ Len(call_args.signal) = 4
    /\ call_args.signal[2] # call_args.signal[4]
    /\ returned.val[2].num = 4 * call_args.signal[2]

\* C15: for a signal of n >= 1 samples and a sampling rate sr > 0, perform_fft
\* returns a frequency vector and a magnitude vector of equal length holding
\* exactly the bins of frequency >= 0, bins 0..(n-1)//2 at frequencies k * sr / n
\* with the magnitudes of those bins of the transform, and every returned
\* frequency is at most sr / 2.
C15_PositiveSpectrum ==
    returned.kind = "spectrum"
    => LET n == Len(call_args.signal)
           sr == call_args.sampling_rate
           signed(k) == IF 2 * k < n THEN k ELSE k - n
           bins == {k \in 0..(n - 1) : signed(k) * sr >= 0}
           X == Fft(call_args.signal)
       IN  /\ Len(returned.val.freq) = Len(returned.val.magnitude)
           /\ Len(returned.val.freq) = Cardinality(bins)
           /\ \A j \in 1..Len(returned.val.freq) :
                  /\ j - 1 \in bins
                  /\ returned.val.freq[j] = [num |-> (j - 1) * sr, den |-> n]
                  /\ returned.val.magnitude[j].sq_num * n * n
                         = 4 * (X[j].re * X[j].re + X[j].im * X[j].im)
                           * returned.val.magnitude[j].sq_den
                  /\ returned.val.freq[j].num >= 0
                  /\ 2 * returned.val.freq[j].num <= sr * returned.val.freq[j].den

C15_Witness ==
    /\ returned.kind = "spectrum"
    /\ Len(call_args.signal) = 4
    /\ call_args.sampling_rate = 1000
    /\ Len(returned.val.freq) = 2
    /\ returned.val.freq[2] = [num |-> 1000, den |-> 4]
    /\ returned.val.magnitude[2].sq_num > 0

\* C16: generate_signal(freq, duration, sampling_rate) returns a time vector and a
\* signal vector of int(sampling_rate * duration) samples each, 1000 with the
\* defaults, and the list [freq, 2*freq, 3*freq], [5, 10, 15] with the defaults.
C16_SignalGeneration ==
    returned.kind = "generated"
    => LET n == IntOf(call_args.sampling_rate * call_args.duration.num,
                      call_args.duration.den)
       IN  /\ Len(returned.val.t) = n
           /\ Len(returned.val.signal) = n
           /\ returned.val.freqs
                  = <<call_args.freq, 2 * call_args.freq, 3 * call_args.freq>>
           /\ (/\ call_args.freq = 5
               /\ call_args.duration = [num |-> 1, den |-> 1]
               /\ call_args.sampling_rate = 1000)
              => /\ Len(returned.val.t) = 1000
                 /\ Len(returned.val.signal) = 1000
                 /\ returned.val.freqs = <<5, 10, 15>>

C16_Witness ==
    /\ returned.kind = "generated"
    /\ call_args.freq = 5
    /\ call_args.duration = [num |-> 1, den |-> 1]
    /\ call_args.sampling_rate = 1000
    /\ Len(returned.val.signal) = 1000
    /\ returned.val.t[1000] = [num |-> 999, den |-> 1000]

RECURSIVE EntriesOf(_)
\* the entries of the calls c, one after the other
EntriesOf(c) == IF c = <<>> THEN <<>> ELSE Entry(Head(c)) \o EntriesOf(Tail(c))

\* what REPORT.md holds after the calls made, were each call an append: the file
\* before the first call, or the first caller's header when there was none, then
\* one entry per call in call order, as written on the platform
AppendedReport ==
    (IF report0.exists THEN report0.bytes ELSE Encode(Header(calls[1])))
    \o Encode(EntriesOf(calls))

\* C21: whenever no update_report call is running, REPORT.md is the file that
\* stood before the first call (or the first caller's header when there was none)
\* followed by one entry per call in call order, and a header was written at most
\* once.  Stated for files that are UTF-8 before the first call.
C21_ReportAppendOnly ==
    (upd_pc = "idle" /\ Decodable(report0.bytes))
    => /\ header_writes <= 1
       /\ calls = <<>> => report = report0
       /\ calls # <<>> => (report.exists /\ report.bytes = AppendedReport)

\* the file before the first call reads and writes back unchanged: it is UTF-8 and
\* its line ends are the platform's
RoundTrips(f) == Decodable(f.bytes) /\ Encode(Decode(f.bytes)) = f.bytes

\* where update_report does append: on a file that reads and writes back
\* unchanged, or on no file
ReportAppendOnlyWhenRoundTrips ==
    (upd_pc = "idle" /\ RoundTrips(report0))
    => /\ header_writes <= 1
       /\ calls = <<>> => report = report0
       /\ calls # <<>> => (report.exists /\ report.bytes = AppendedReport)

====
